---- MODULE Spec2Model ----
(***************************************************************************)
(* Model of src/routes/+page.svelte: the typed-sequence model, the         *)
(* auto-fade / auto-reveal timers and the line renderer of the keyboard    *)
(* "signature" page.                                                       *)
(*                                                                         *)
(* Strings are sequences of one-character strings.  keyboardOpacity is     *)
(* kept in tenths (1 -> 10, 0.3 -> 3, 0.1 -> 1).  Time is in milliseconds  *)
(* and advances in steps of a quantum; a timer whose delay is shorter than *)
(* the quantum (the 10ms deferred redraw) fires before the clock moves.    *)
(***************************************************************************)
EXTENDS Integers, Sequences, FiniteSets, Bags

\* ----- bounds of the model --------------------------------------------------
\* longest currentText the model types
MaxLen == 3
\* most timers pending at once
MaxTimers == 3
\* longest typedSequence the drawing functions are applied to
MaxSeq == 5

\* ----- program constants ----------------------------------------------------
FadeDelay == 2000
ExportDelay == 1000
RedrawDelay == 10
OpacityFull == 10
OpacityFaded == 3
OpacityConfirmed == 1

\* clock step of the model: the timing claims are checked with time moving in
\* half steps of the shorter delay, the others in whole steps
QuantumOf(m) == IF m = "clock" THEN ExportDelay \div 2 ELSE ExportDelay
\* the elapsed-time observer stops counting here
ElapsedCap == FadeDelay + ExportDelay + ExportDelay

\* ----- keys -----------------------------------------------------------------
\* the letters of keyboardLayout the model types
Letters == {"A", "I"}
\* the 26 keys of the layout: what /^[A-Z]$/ accepts
keyboardLayout ==
    {"Q", "W", "E", "R", "T", "Y", "U", "I", "O", "P",
     "A", "S", "D", "F", "G", "H", "J", "K", "L",
     "Z", "X", "C", "V", "B", "N", "M"}
\* event.key values delivered to handleKeyPress
LetterKeys == {"a", "A", "i", "I"}
OtherKeys == {"Escape", "1"}
\* the dotless i of a Turkish keyboard, event.key written by its code point:
\* it is no letter of A-Z, but its capital is
FoldedKeys == {"U+0131"}
Keys == LetterKeys \cup {" ", "Backspace", "Enter"} \cup OtherKeys
            \cup FoldedKeys

\* String.prototype.toUpperCase on the key values of the model
ToUpperCase(k) ==
    CASE k = "a" -> "A"
      [] k = "i" -> "I"
      [] k = "u" -> "U"
      [] k = "U+0131" -> "I"
      [] k = "Backspace" -> "BACKSPACE"
      [] k = "Enter" -> "ENTER"
      [] k = "Escape" -> "ESCAPE"
      [] OTHER -> k

\* String.prototype.toLowerCase on a single character
ToLowerCase(c) ==
    CASE c = "A" -> "a"
      [] c = "I" -> "i"
      [] c = "U" -> "u"
      [] OTHER -> c

\* mutant: the pattern without its i flag, written in capitals
IsCapitalChar(c) == c \in keyboardLayout
\* lastChar.match(/[a-z]/i)
IsLetterChar(c) == ToUpperCase(c) \in keyboardLayout

Last(s) == s[Len(s)]
ButLast(s) == SubSeq(s, 1, Len(s) - 1)

\* ----- state ----------------------------------------------------------------
VARIABLES
    typedSequence,      \* string[]: letters typed, for line drawing
    currentText,        \* displayed text, as a sequence of characters
    keyboardOpacity,    \* in tenths
    showExportButtons,
    isHovering,
    timers,             \* the browser's pending timers, a bag of
                        \* [kind, due, handle]; handle names the variable
                        \* (fadeTimeout, exportTimeout) that stores the
                        \* timer's id, "none" once it is overwritten
    keyPositions,       \* Record<letter, KeyPosition>, NoPos = no entry
    layout,             \* the rendered position of each key element
    canvasPath,         \* what the canvas shows: the commands of the last stroke
    \* observers, not program state
    lastOp,             \* the handler that ran last
    lastInput,          \* the input handler that last took effect
    sinceInput,         \* ms since then, capped at ElapsedCap
    leftActive,         \* whether it left the keyboard at full opacity with
                        \* the export controls hidden
    keyLog,             \* letter and space keys since the text was last empty
    preText,            \* currentText before the last handler
    preSeq,             \* typedSequence before the last handler
    preRest,            \* opacity, export controls, hover and timers before it
    ctxCalls,           \* the calls the last redrawLines made on ctx
    download,           \* the file the last handler downloaded, if it did
    idle                \* "no" while the user may still act; once the user
                        \* has stopped, whether the export controls were
                        \* "hidden" or "shown" at that moment

prog == <<typedSequence, currentText, keyboardOpacity, showExportButtons,
          isHovering, timers, keyPositions, layout, canvasPath>>
clock == <<lastInput, sinceInput, leftActive>>
files == <<ctxCalls, download>>
vars == <<prog, clock, lastOp, preText, preSeq, preRest, keyLog, files, idle>>

NoPos == [x |-> -1, y |-> -1]
Point(px, py) == [x |-> px, y |-> py]
\* the layout the page is mounted with
MountLayout == [l \in Letters |-> IF l = "A" THEN Point(1, 2) ELSE Point(5, 3)]

Min(a, b) == IF a < b THEN a ELSE b

\* ----- timers ---------------------------------------------------------------
Timer(kind, delay, handle) == [kind |-> kind, due |-> delay, handle |-> handle]
\* the timers of one kind that are pending
Pending(kind) == {t \in BagToSet(timers) : t.kind = kind}
PendingCount(kind) ==
    BagCardinality([t \in Pending(kind) |-> timers[t]])
\* one timer less
Without(ts, t) == ts (-) SetToBag({t})
\* clearTimeout(v): cancels the timer whose id the variable v stores, if it
\* is still pending
ClearTimeout(ts, v) ==
    [t \in {u \in BagToSet(ts) : u.handle # v} |-> ts[t]]
\* v = setTimeout(callback, delay): the timer v stored before keeps running,
\* but v no longer names it
Unname(ts, v) ==
    LET Renamed(t) == IF t.handle = v THEN [t EXCEPT !.handle = "none"] ELSE t
        olds == BagToSet(ts)
    IN  [r \in {Renamed(t) : t \in olds} |->
            BagCardinality([t \in {u \in olds : Renamed(u) = r} |-> ts[t]])]
SetTimeout(ts, kind, delay, v) ==
    Unname(ts, v) (+) SetToBag({Timer(kind, delay, v)})
\* clearTimeout(fadeTimeout); clearTimeout(exportTimeout)
ClearBoth(ts) == ClearTimeout(ClearTimeout(ts, "fadeTimeout"), "exportTimeout")

\* ----- key positions and drawing --------------------------------------------
\* calculateKeyPositions: every rendered key element overwrites its entry
calculateKeyPositions(reg, lay) ==
    [l \in Letters |-> IF l \in DOMAIN lay THEN lay[l] ELSE reg[l]]

\* one pass of the loop body of redrawLines / exportAsSVG, i counted from 1
SegmentCommands(seq, reg, i) ==
    IF reg[seq[i]] # NoPos /\ reg[seq[i + 1]] # NoPos
    THEN (IF i = 1 THEN <<[op |-> "M", p |-> reg[seq[i]]]>> ELSE <<>>)
         \o <<[op |-> "L", p |-> reg[seq[i + 1]]]>>
    ELSE <<>>

RECURSIVE PathFrom(_, _, _)
PathFrom(seq, reg, i) ==
    IF i >= Len(seq) THEN <<>>
    ELSE SegmentCommands(seq, reg, i) \o PathFrom(seq, reg, i + 1)

\* a call on ctx that takes no point
Call(op) == [op |-> op, p |-> NoPos]
\* mutant: the path is begun and stroked for a single letter too
redrawCallsFromOne(seq, reg) ==
    <<Call("clearRect")>> \o
    (IF Len(seq) = 0 THEN <<>>
     ELSE <<Call("style"), Call("setLineDash")>> \o
          (IF Len(seq) >= 1
           THEN <<Call("beginPath")>> \o PathFrom(seq, reg, 1)
                    \o <<Call("stroke")>>
           ELSE <<>>))

\* the calls redrawLines makes on ctx, in order; "M" is moveTo, "L" lineTo,
\* "style" the writes of strokeStyle, lineWidth, lineCap and the shadow
redrawCalls(seq, reg) ==
    <<Call("clearRect")>> \o
    (IF Len(seq) = 0 THEN <<>>
     ELSE <<Call("style"), Call("setLineDash")>> \o
          (IF Len(seq) >= 2
           THEN <<Call("beginPath")>> \o PathFrom(seq, reg, 1)
                    \o <<Call("stroke")>>
           ELSE <<>>))

\* redrawLines: the canvas is cleared, then the path is stroked; what the
\* canvas shows afterwards
redrawLines(seq, reg) ==
    SelectSeq(redrawCalls(seq, reg), LAMBDA c : c.op \in {"M", "L"})

\* ----- export --------------------------------------------------------------
\* no file
NoFile == [kind |-> "none"]
\* currentText.replace(/\s+/g, '-'): every run of spaces becomes one hyphen
RECURSIVE Hyphenate(_)
Hyphenate(text) ==
    IF text = <<>> THEN <<>>
    ELSE IF text[1] # " " THEN <<text[1]>> \o Hyphenate(Tail(text))
    ELSE IF Len(text) >= 2 /\ text[2] = " " THEN Hyphenate(Tail(text))
    ELSE <<"-">> \o Hyphenate(Tail(text))
\* mutant: one circle per letter, however often it was typed
RECURSIVE CirclesOnce(_, _, _)
CirclesOnce(seq, reg, i) ==
    IF i > Len(seq) THEN <<>>
    ELSE (IF reg[seq[i]] # NoPos /\ \A j \in 1..(i - 1) : seq[j] # seq[i]
          THEN <<reg[seq[i]]>> ELSE <<>>)
         \o CirclesOnce(seq, reg, i + 1)

\* the circles of exportAsSVG: one per entry of the sequence that has a
\* position
RECURSIVE CirclesFrom(_, _, _)
CirclesFrom(seq, reg, i) ==
    IF i > Len(seq) THEN <<>>
    ELSE (IF reg[seq[i]] # NoPos THEN <<reg[seq[i]]>> ELSE <<>>)
         \o CirclesFrom(seq, reg, i + 1)
\* exportAsSVG: the file it downloads; none for fewer than two letters
exportAsSVG(seq, reg, text) ==
    IF Len(seq) < 2 THEN NoFile
    ELSE [kind |-> "svg",
          name |-> Hyphenate(text),
          path |-> PathFrom(seq, reg, 1),
          circles |-> CirclesFrom(seq, reg, 1)]
\* exportAsPNG: the file holds what the canvas shows
exportAsPNG(shown, text) ==
    [kind |-> "png", name |-> Hyphenate(text), image |-> shown]

\* ----- handlers -------------------------------------------------------------
\* startFadeTimer: fadeTimeout = setTimeout(<fade callback>, 2000)
startFadeTimer(ts) == SetTimeout(ts, "fade", FadeDelay, "fadeTimeout")

\* mutant: the display text takes the key as typed, not lowercased
addLetterAsTyped(letter) ==
    /\ Len(currentText) < MaxLen
    /\ currentText' = Append(currentText, letter)
    /\ typedSequence' = Append(typedSequence, letter)
    /\ keyboardOpacity' = OpacityFull
    /\ showExportButtons' = FALSE
    /\ timers' = SetTimeout(SetTimeout(ClearBoth(timers), "redraw", RedrawDelay,
                                       "none"),
                            "fade", FadeDelay, "fadeTimeout")
    /\ BagCardinality(timers') <= MaxTimers
    /\ UNCHANGED <<isHovering, keyPositions, layout, canvasPath>>

addLetter(letter) ==
    /\ Len(currentText) < MaxLen
    /\ currentText' = Append(currentText, ToLowerCase(letter))
    /\ typedSequence' = Append(typedSequence, letter)
    /\ keyboardOpacity' = OpacityFull
    /\ showExportButtons' = FALSE
    /\ timers' = startFadeTimer(
                     SetTimeout(ClearBoth(timers), "redraw", RedrawDelay, "none"))
    /\ BagCardinality(timers') <= MaxTimers
    /\ UNCHANGED <<isHovering, keyPositions, layout, canvasPath>>

\* mutant: the space is refused after a space only
addSpaceLeading ==
    IF currentText = <<>> \/ Last(currentText) # " "
    THEN /\ Len(currentText) < MaxLen
         /\ currentText' = Append(currentText, " ")
         /\ keyboardOpacity' = OpacityFull
         /\ showExportButtons' = FALSE
         /\ timers' = SetTimeout(ClearBoth(timers), "fade", FadeDelay,
                                 "fadeTimeout")
         /\ BagCardinality(timers') <= MaxTimers
         /\ UNCHANGED <<typedSequence, isHovering, keyPositions, layout,
                        canvasPath>>
    ELSE UNCHANGED prog

\* mutant: the space is refused on empty text only
addSpaceRepeatable ==
    IF currentText # <<>>
    THEN /\ Len(currentText) < MaxLen
         /\ currentText' = Append(currentText, " ")
         /\ keyboardOpacity' = OpacityFull
         /\ showExportButtons' = FALSE
         /\ timers' = SetTimeout(ClearBoth(timers), "fade", FadeDelay,
                                 "fadeTimeout")
         /\ BagCardinality(timers') <= MaxTimers
         /\ UNCHANGED <<typedSequence, isHovering, keyPositions, layout,
                        canvasPath>>
    ELSE UNCHANGED prog

addSpace ==
    IF currentText # <<>> /\ Last(currentText) # " "
    THEN /\ Len(currentText) < MaxLen
         /\ currentText' = Append(currentText, " ")
         /\ keyboardOpacity' = OpacityFull
         /\ showExportButtons' = FALSE
         /\ timers' = startFadeTimer(ClearBoth(timers))
         /\ BagCardinality(timers') <= MaxTimers
         /\ UNCHANGED <<typedSequence, isHovering, keyPositions, layout,
                        canvasPath>>
    ELSE UNCHANGED prog

\* mutant: every backspace takes a letter off the sequence
removeLetterAlwaysPops ==
    IF currentText # <<>>
    THEN /\ currentText' = ButLast(currentText)
         /\ typedSequence' = ButLast(typedSequence)
         /\ canvasPath' = IF Len(typedSequence') >= 2
                          THEN PathFrom(typedSequence', keyPositions, 1)
                          ELSE <<>>
         /\ keyboardOpacity' = OpacityFull
         /\ showExportButtons' = FALSE
         /\ timers' = IF currentText' # <<>>
                      THEN SetTimeout(ClearBoth(timers), "fade", FadeDelay,
                                      "fadeTimeout")
                      ELSE ClearBoth(timers)
         /\ BagCardinality(timers') <= MaxTimers
         /\ UNCHANGED <<isHovering, keyPositions, layout>>
    ELSE UNCHANGED prog

removeLetter ==
    IF currentText # <<>>
    THEN /\ currentText' = ButLast(currentText)
         /\ typedSequence' = IF IsLetterChar(Last(currentText))
                             THEN ButLast(typedSequence)
                             ELSE typedSequence
         /\ canvasPath' = redrawLines(typedSequence', keyPositions)
         /\ keyboardOpacity' = OpacityFull
         /\ showExportButtons' = FALSE
         /\ timers' = IF currentText' # <<>>
                      THEN startFadeTimer(ClearBoth(timers))
                      ELSE ClearBoth(timers)
         /\ BagCardinality(timers') <= MaxTimers
         /\ UNCHANGED <<isHovering, keyPositions, layout>>
    ELSE UNCHANGED prog

\* mutant: confirm gives way to a hovering pointer
confirmTypingUnlessHovering ==
    IF isHovering THEN UNCHANGED prog
    ELSE /\ timers' = ClearBoth(timers)
         /\ keyboardOpacity' = OpacityConfirmed
         /\ showExportButtons' = TRUE
         /\ UNCHANGED <<typedSequence, currentText, isHovering, keyPositions,
                        layout, canvasPath>>

confirmTyping ==
    /\ timers' = ClearBoth(timers)
    /\ keyboardOpacity' = OpacityConfirmed
    /\ showExportButtons' = TRUE
    /\ UNCHANGED <<typedSequence, currentText, isHovering, keyPositions,
                   layout, canvasPath>>

handleKeyPress(k) ==
    LET key == ToUpperCase(k)
    IN  IF key \in keyboardLayout THEN addLetter(key)
        ELSE IF key = " " THEN addSpace
        ELSE IF key = "BACKSPACE" THEN removeLetter
        ELSE IF key = "ENTER" THEN confirmTyping
        ELSE UNCHANGED prog

\* mutant: pointer-enter leaves the export controls as they are
handleMouseEnterKeepsExport ==
    /\ ~isHovering
    /\ isHovering' = TRUE
    /\ timers' = ClearBoth(timers)
    /\ keyboardOpacity' = OpacityFull
    /\ UNCHANGED <<typedSequence, currentText, showExportButtons, keyPositions,
                   layout, canvasPath>>

\* onmouseenter of the keyboard; the browser raises it only from outside
handleMouseEnter ==
    /\ ~isHovering
    /\ isHovering' = TRUE
    /\ timers' = ClearBoth(timers)
    /\ keyboardOpacity' = OpacityFull
    /\ showExportButtons' = FALSE
    /\ UNCHANGED <<typedSequence, currentText, keyPositions, layout, canvasPath>>

\* mutant: pointer-leave starts no fade timer
handleMouseLeaveNoRestart ==
    /\ isHovering
    /\ isHovering' = FALSE
    /\ UNCHANGED <<typedSequence, currentText, keyboardOpacity, timers,
                   showExportButtons, keyPositions, layout, canvasPath>>

\* onmouseleave of the keyboard; the browser raises it only from inside
handleMouseLeave ==
    /\ isHovering
    /\ isHovering' = FALSE
    /\ timers' = IF typedSequence # <<>> THEN startFadeTimer(timers) ELSE timers
    /\ BagCardinality(timers') <= MaxTimers
    /\ UNCHANGED <<typedSequence, currentText, keyboardOpacity,
                   showExportButtons, keyPositions, layout, canvasPath>>

\* mutant: clear forgets the opacity
clearCanvasKeepsOpacity ==
    /\ typedSequence' = <<>>
    /\ currentText' = <<>>
    /\ showExportButtons' = FALSE
    /\ timers' = ClearBoth(timers)
    /\ canvasPath' = <<>>
    /\ UNCHANGED <<keyboardOpacity, isHovering, keyPositions, layout>>

clearCanvas ==
    /\ typedSequence' = <<>>
    /\ currentText' = <<>>
    /\ showExportButtons' = FALSE
    /\ keyboardOpacity' = OpacityFull
    /\ timers' = ClearBoth(timers)
    /\ canvasPath' = <<>>
    /\ UNCHANGED <<isHovering, keyPositions, layout>>

\* ----- timer callbacks ------------------------------------------------------
\* mutant: the fade callback does not look at isHovering
fadeCallbackUnguarded(t) ==
    /\ t.kind = "fade"
    /\ t.due = 0
    /\ keyboardOpacity' = OpacityFaded
    /\ timers' = SetTimeout(Without(timers, t), "export", ExportDelay,
                            "exportTimeout")
    /\ UNCHANGED <<typedSequence, currentText, showExportButtons, isHovering,
                   keyPositions, layout, canvasPath>>

\* the callback startFadeTimer schedules
fadeCallback(t) ==
    /\ t.kind = "fade"
    /\ t.due = 0
    /\ IF ~isHovering
       THEN /\ keyboardOpacity' = OpacityFaded
            /\ timers' = SetTimeout(Without(timers, t), "export", ExportDelay,
                                    "exportTimeout")
       ELSE /\ timers' = Without(timers, t)
            /\ UNCHANGED keyboardOpacity
    /\ UNCHANGED <<typedSequence, currentText, showExportButtons, isHovering,
                   keyPositions, layout, canvasPath>>

\* the callback the fade callback schedules
exportCallback(t) ==
    /\ t.kind = "export"
    /\ t.due = 0
    /\ timers' = Without(timers, t)
    /\ showExportButtons' =
           IF ~isHovering /\ keyboardOpacity = OpacityFaded
           THEN TRUE ELSE showExportButtons
    /\ UNCHANGED <<typedSequence, currentText, keyboardOpacity, isHovering,
                   keyPositions, layout, canvasPath>>

\* the deferred recalculation and redraw addLetter schedules
redrawCallback(t) ==
    /\ t.kind = "redraw"
    /\ timers' = Without(timers, t)
    /\ keyPositions' = calculateKeyPositions(keyPositions, layout)
    /\ canvasPath' = redrawLines(typedSequence, keyPositions')
    /\ UNCHANGED <<typedSequence, currentText, keyboardOpacity,
                   showExportButtons, isHovering, layout>>

\* q ms pass with no event: possible once every callback due before has run
Elapse(q) ==
    /\ \A t \in BagToSet(timers) : t.due >= q
    /\ timers' = [r \in {[t EXCEPT !.due = t.due - q] : t \in BagToSet(timers)}
                     |-> timers[[r EXCEPT !.due = r.due + q]]]
    /\ UNCHANGED <<typedSequence, currentText, keyboardOpacity,
                   showExportButtons, isHovering, keyPositions, layout,
                   canvasPath>>

\* ----- observers ------------------------------------------------------------
\* the handler handleKeyPress routes a key to
HandlerOf(k) ==
    LET key == ToUpperCase(k)
    IN  IF key \in keyboardLayout THEN "addLetter"
        ELSE IF key = " " THEN "addSpace"
        ELSE IF key = "BACKSPACE" THEN "removeLetter"
        ELSE IF key = "ENTER" THEN "confirmTyping"
        ELSE "ignored"

\* the clock observer: which input last took effect, and how long ago
Clocked(op) ==
    IF op = "Tick"
    THEN /\ sinceInput' = Min(ElapsedCap, sinceInput + QuantumOf("clock"))
         /\ UNCHANGED <<lastInput, leftActive>>
    ELSE IF \/ op \in {"fadeCallback", "exportCallback", "redrawCallback"}
            \/ op \in {"addSpace", "removeLetter", "ignored"} /\ prog' = prog
    THEN UNCHANGED clock
    ELSE /\ lastInput' = op
         /\ sinceInput' = 0
         /\ leftActive' = (keyboardOpacity' = OpacityFull /\ ~showExportButtons')

\* the trail observer: the handler that ran last, and the state it started
\* from where a claim compares the two
OpName(op, k) ==
    IF op = "addLetter" /\ k \notin LetterKeys
    THEN "addLetterByOtherKey"
    ELSE IF op = "addSpace" /\ (currentText = <<>> \/ Last(currentText) = " ")
    THEN "addSpaceRejected"
    ELSE IF op = "removeLetter" /\ lastOp = "addLetter"
    THEN "removeLetterAfterAddLetter"
    ELSE IF op = "removeLetter" /\ currentText # <<>> /\ Last(currentText) = " "
    THEN "removeLetterAtSpace"
    ELSE IF op = "clearCanvas" /\ lastOp \in {"clearCanvas", "clearCanvasAgain"}
    THEN "clearCanvasAgain"
    ELSE op
\* the operations a claim expects to change nothing
Unchanging == {"addSpaceRejected", "ignored", "addLetterByOtherKey",
               "clearCanvasAgain"}
Trailed(op, k) ==
    LET name == OpName(op, k)
        keeps == name = "removeLetterAfterAddLetter"
        text == name \in Unchanging \cup {"addLetter", "confirmTyping"}
    IN  /\ lastOp' = name
        /\ preText' = IF text THEN currentText
                       ELSE IF keeps THEN preText ELSE <<>>
        /\ preSeq' = IF text THEN typedSequence
                      ELSE IF keeps THEN preSeq ELSE <<>>
        /\ preRest' = IF name \in Unchanging
                       THEN <<keyboardOpacity, showExportButtons, isHovering,
                              timers>>
                       ELSE <<>>

\* the key observer: the letter and space keys that took effect since the
\* text was last empty, lost at a backspace or at a key outside LetterKeys
\* that types a letter
Lost == <<"...">>
Logged(op, k) ==
    keyLog' = IF currentText' = <<>> THEN <<>>
              ELSE IF op = "removeLetter" /\ prog' # prog THEN Lost
              ELSE IF op = "addLetter" /\ k \notin LetterKeys THEN Lost
              ELSE IF keyLog # Lost /\ op \in {"addLetter", "addSpace"}
                      /\ prog' # prog
              THEN Append(keyLog, k)
              ELSE keyLog

\* the file observer: the download of the handler that ran last
Filed(op) ==
    /\ download' = IF op = "exportAsSVG"
                   THEN exportAsSVG(typedSequence, keyPositions, currentText)
                   ELSE IF op = "exportAsPNG"
                   THEN exportAsPNG(canvasPath, currentText)
                   ELSE NoFile
    /\ UNCHANGED ctxCalls

\* one observer watches per specification
Watch(m, op, k) ==
    /\ IF m = "clock" THEN Clocked(op) ELSE UNCHANGED clock
    /\ IF m = "trail" THEN Trailed(op, k)
       ELSE UNCHANGED <<lastOp, preText, preSeq, preRest>>
    /\ IF m = "keys" THEN Logged(op, k) ELSE UNCHANGED keyLog
    /\ IF m = "files" THEN Filed(op) ELSE UNCHANGED files
    /\ UNCHANGED idle

\* ----- the events of the page -----------------------------------------------
\* <svelte:window onkeydown={handleKeyPress} />
KeyDown(m, k) == handleKeyPress(k) /\ Watch(m, HandlerOf(k), k)
\* onclick={() => addLetter(letter)} of a key button
ClickKey(m, l) == addLetter(l) /\ Watch(m, "addLetter", l)
PointerEnter(m) == handleMouseEnter /\ Watch(m, "handleMouseEnter", "")
PointerLeave(m) == handleMouseLeave /\ Watch(m, "handleMouseLeave", "")
Clear(m) == clearCanvas /\ Watch(m, "clearCanvas", "")
FadeFires(m) ==
    \E t \in BagToSet(timers) : fadeCallback(t) /\ Watch(m, "fadeCallback", "")
ExportFires(m) ==
    \E t \in BagToSet(timers) : exportCallback(t) /\ Watch(m, "exportCallback", "")
RedrawFires(m) ==
    \E t \in BagToSet(timers) : redrawCallback(t) /\ Watch(m, "redrawCallback", "")
Tick(m) == Elapse(QuantumOf(m)) /\ Watch(m, "Tick", "")
\* onclick={exportAsSVG} and onclick={exportAsPNG}: the buttons are rendered
\* only inside {#if showExportButtons}; the handlers write no state
ExportSVG(m) ==
    showExportButtons /\ UNCHANGED prog /\ Watch(m, "exportAsSVG", "")
ExportPNG(m) ==
    showExportButtons /\ UNCHANGED prog /\ Watch(m, "exportAsPNG", "")

\* the state once onMount has run
Init ==
    /\ typedSequence = <<>>
    /\ currentText = <<>>
    /\ keyboardOpacity = OpacityFull
    /\ showExportButtons = FALSE
    /\ isHovering = FALSE
    /\ timers = EmptyBag
    /\ layout = MountLayout
    /\ keyPositions = calculateKeyPositions([l \in Letters |-> NoPos], layout)
    /\ canvasPath = <<>>
    /\ lastOp = "onMount"
    /\ lastInput = "none"
    /\ sinceInput = 0
    /\ leftActive = TRUE
    /\ keyLog = <<>>
    /\ preText = <<>>
    /\ preSeq = <<>>
    /\ preRest = <<>>
    /\ ctxCalls = <<>>
    /\ download = NoFile
    /\ idle = "no"

NextOf(m) ==
    \/ \E k \in Keys : KeyDown(m, k)
    \/ \E l \in Letters : ClickKey(m, l)
    \/ PointerEnter(m)
    \/ PointerLeave(m)
    \/ Clear(m)
    \/ FadeFires(m)
    \/ ExportFires(m)
    \/ RedrawFires(m)
    \/ Tick(m)

\* the page with its clock observed: the timing claims
Next == NextOf("clock")
Spec == Init /\ [][Next]_vars

\* the page with its trail observed: the claims about single operations
NextText == NextOf("trail")
SpecText == Init /\ [][NextText]_vars

\* the page with its keys observed: the claims about typed sequences
NextKeys == NextOf("keys")
SpecKeys == Init /\ [][NextKeys]_vars

\* the page with its downloads observed: the claims about exported files
NextFiles == NextOf("files") \/ ExportSVG("files") \/ ExportPNG("files")
SpecFiles == Init /\ [][NextFiles]_vars

\* the page left alone: the user acts for a while and then stops for good;
\* from then on only time passes and the pending callbacks run.  The browser
\* runs every callback that is due and its clock does not stop.
Stop ==
    /\ idle = "no"
    /\ idle' = IF showExportButtons THEN "shown" ELSE "hidden"
    /\ UNCHANGED <<prog, clock, lastOp, preText, preSeq, preRest, keyLog, files>>
TimerSteps(m) == FadeFires(m) \/ ExportFires(m) \/ RedrawFires(m) \/ Tick(m)
NextIdle ==
    \/ idle = "no" /\ NextOf("idle")
    \/ Stop
    \/ idle # "no" /\ TimerSteps("idle")
SpecIdle ==
    /\ Init
    /\ [][NextIdle]_vars
    /\ WF_vars(FadeFires("idle"))
    /\ WF_vars(ExportFires("idle"))
    /\ WF_vars(RedrawFires("idle"))
    /\ WF_vars(Tick("idle"))

\* ----- the drawing functions on their own -----------------------------------
\* the letters they are applied to: one more than the page types, so that two
\* letters can have a position while a third has none
DrawLetters == Letters \cup {"U"}
DrawLayout ==
    [l \in DrawLetters |-> IF l \in Letters THEN MountLayout[l] ELSE Point(3, 1)]
\* every registry that holds the positions of some of the letters
Registries ==
    {[l \in DrawLetters |-> IF l \in known THEN DrawLayout[l] ELSE NoPos] :
        known \in SUBSET DrawLetters}
SeqsUpTo(S, n) == UNION {[1..k -> S] : k \in 0..n}

\* any typed sequence with its text, over any registry, on a blank canvas
InitDraw ==
    /\ typedSequence \in SeqsUpTo(DrawLetters, MaxSeq)
    /\ currentText = [i \in 1..Len(typedSequence) |->
                          ToLowerCase(typedSequence[i])]
    /\ keyPositions \in Registries
    /\ layout = DrawLayout
    /\ keyboardOpacity = OpacityFull
    /\ showExportButtons = FALSE
    /\ isHovering = FALSE
    /\ timers = EmptyBag
    /\ canvasPath = <<>>
    /\ lastOp = "onMount"
    /\ lastInput = "none"
    /\ sinceInput = 0
    /\ leftActive = TRUE
    /\ keyLog = <<>>
    /\ preText = <<>>
    /\ preSeq = <<>>
    /\ preRest = <<>>
    /\ ctxCalls = <<>>
    /\ download = NoFile
    /\ idle = "no"

\* redrawLines() is called
Redraw ==
    /\ ctxCalls' = redrawCalls(typedSequence, keyPositions)
    /\ canvasPath' = redrawLines(typedSequence, keyPositions)
    /\ download' = NoFile
    /\ UNCHANGED <<typedSequence, currentText, keyboardOpacity,
                   showExportButtons, isHovering, timers, keyPositions, layout,
                   clock, lastOp, preText, preSeq, preRest, keyLog, idle>>
\* exportAsSVG() is called
Export ==
    /\ download' = exportAsSVG(typedSequence, keyPositions, currentText)
    /\ UNCHANGED <<prog, clock, lastOp, preText, preSeq, preRest, keyLog,
                   ctxCalls, idle>>

NextDraw == Redraw \/ Export
SpecDraw == InitDraw /\ [][NextDraw]_vars

\* ----- the fade states ------------------------------------------------------
Active == keyboardOpacity = OpacityFull /\ ~showExportButtons
Fading == keyboardOpacity = OpacityFaded /\ ~showExportButtons
Revealed == keyboardOpacity = OpacityFaded /\ showExportButtons
Confirmed == keyboardOpacity = OpacityConfirmed /\ showExportButtons
\* every fade or export callback that is due has run
Settled == \A t \in Pending("fade") \cup Pending("export") : t.due > 0
\* the fade sequence, counted from the last input
OnSchedule ==
    /\ sinceInput < FadeDelay => Active
    /\ sinceInput >= FadeDelay /\ sinceInput < FadeDelay + ExportDelay => Fading
    /\ sinceInput >= FadeDelay + ExportDelay => Revealed

\* C1: after a letter, an accepted space or a backspace that leaves text, typed
\* while the pointer is away and followed by no other input, the keyboard is
\* Active for the first 2000ms, Fading for the next 1000ms and Revealed after.
C1_FadeSchedule ==
    ( /\ lastInput \in {"addLetter", "addSpace", "removeLetter"}
      /\ currentText # <<>>
      /\ ~isHovering
      /\ Settled ) => OnSchedule

\* C2: at most one fade timer and at most one reveal timer is pending.
C2_OneTimerPerRole == PendingCount("fade") <= 1 /\ PendingCount("export") <= 1

\* C3: once clear() or confirm has run and no input follows, no timer
\* callback changes the keyboard any more: it stays Active after clear() and
\* Confirmed after confirm.
C3_ClearAndConfirmCancel ==
    /\ lastInput = "clearCanvas" => Active
    /\ lastInput = "confirmTyping" => Confirmed

\* C4: after the pointer leaves an Active keyboard with a non-empty sequence
\* and no input follows, the keyboard is Active for 2000ms, Fading for the
\* next 1000ms and Revealed after, whatever was typed during the hover.
C4_LeaveRestartsFade ==
    ( /\ lastInput = "handleMouseLeave"
      /\ leftActive
      /\ typedSequence # <<>>
      /\ Settled ) => OnSchedule

\* C5: pointer-enter leaves the keyboard Active, and while the pointer hovers
\* the opacity is never 0.3 and the export controls show only when Confirmed.
C5_HoverHoldsActive ==
    /\ lastOp = "handleMouseEnter" => Active /\ isHovering
    /\ isHovering =>
           /\ keyboardOpacity # OpacityFaded
           /\ showExportButtons => Confirmed
\* a fade callback has just run under a hovering pointer
C5_Witness == isHovering /\ lastOp = "fadeCallback" /\ currentText # <<>>

\* the letter a key stands for, in either case
UpperOf(k) == IF k \in {"a", "A"} THEN "A" ELSE "I"
LowerOf(k) == IF k \in {"a", "A"} THEN "a" ELSE "i"
OnlyLetters(log) ==
    log # Lost /\ \A i \in 1..Len(log) : log[i] \in LetterKeys

\* C6: after letter keys L1..Ln (n >= 2) typed from the empty text,
\* typedSequence is L1..Ln in capitals and currentText is L1..Ln in lowercase.
C6_LettersReplay ==
    (OnlyLetters(keyLog) /\ Len(keyLog) >= 2) =>
        /\ typedSequence = [i \in 1..Len(keyLog) |-> UpperOf(keyLog[i])]
        /\ currentText = [i \in 1..Len(keyLog) |-> LowerOf(keyLog[i])]
\* letters of both cases were typed, as many as the model allows
C6_Witness ==
    /\ OnlyLetters(keyLog)
    /\ Len(keyLog) = MaxLen
    /\ \E i, j \in 1..Len(keyLog) :
           keyLog[i] \in {"a", "i"} /\ keyLog[j] \in {"A", "I"}

\* C7: a backspace right after a letter restores typedSequence and
\* currentText to what they were before the letter.
C7_BackspaceUndoesLetter ==
    lastOp = "removeLetterAfterAddLetter" =>
        currentText = preText /\ typedSequence = preSeq
\* a letter typed after a space has been taken back
C7_Witness ==
    /\ lastOp = "removeLetterAfterAddLetter"
    /\ currentText # <<>>
    /\ Last(currentText) = " "

\* C8: a space pressed on empty text or after a space changes nothing:
\* neither the text, the sequence, the opacity, the export controls nor the
\* pending timers.
C8_RefusedSpaceIsNoOp ==
    lastOp = "addSpaceRejected" =>
        /\ currentText = preText
        /\ typedSequence = preSeq
        /\ <<keyboardOpacity, showExportButtons, isHovering, timers>> = preRest
\* A, B, space, space: the second space has been refused
C8_Witness ==
    /\ lastOp = "addSpaceRejected"
    /\ currentText = <<"a", "i", " ">>
    /\ typedSequence = <<"A", "I">>
    /\ BagCardinality(timers) > 0

\* C9: clear() empties typedSequence and currentText, sets opacity 1 and
\* hides the export controls; a second clear() changes nothing.
C9_ClearResets ==
    /\ lastOp \in {"clearCanvas", "clearCanvasAgain"} =>
           /\ typedSequence = <<>>
           /\ currentText = <<>>
           /\ keyboardOpacity = OpacityFull
           /\ ~showExportButtons
    /\ lastOp = "clearCanvasAgain" =>
           /\ currentText = preText
           /\ typedSequence = preSeq
           /\ <<keyboardOpacity, showExportButtons, isHovering, timers>> = preRest
\* clear() has run twice while a timer it does not own is still pending
C9_Witness == lastOp = "clearCanvasAgain" /\ BagCardinality(timers) > 0

\* C10: confirm sets opacity 0.1 and shows the export controls at once,
\* hovering or not, and leaves typedSequence and currentText as they were.
C10_ConfirmForcesConfirmed ==
    lastOp = "confirmTyping" =>
        /\ Confirmed
        /\ currentText = preText
        /\ typedSequence = preSeq
\* confirm has run on typed text under a hovering pointer
C10_Witness ==
    lastOp = "confirmTyping" /\ isHovering /\ Len(typedSequence) >= 2

\* C11: a key that is no letter, space, Backspace or Enter changes nothing:
\* neither the sequence, the text, the opacity, the export controls, the
\* hover flag nor the pending timers.
C11_OtherKeyIsIgnored ==
    lastOp \in {"ignored", "addLetterByOtherKey"} =>
        /\ currentText = preText
        /\ typedSequence = preSeq
        /\ <<keyboardOpacity, showExportButtons, isHovering, timers>> = preRest

\* the characters of a text that are not spaces
NonSpaces(text) == SelectSeq(text, LAMBDA c : c # " ")
C12_LengthBound == Len(typedSequence) <= Len(NonSpaces(currentText))
\* a step of the backspace handler on a text that is not empty
C12_BackspaceStep ==
    ( /\ lastOp' \in {"removeLetter", "removeLetterAfterAddLetter",
                      "removeLetterAtSpace"}
      /\ currentText # <<>> ) =>
        /\ Len(currentText') = Len(currentText) - 1
        /\ IF Last(currentText) = " "
           THEN typedSequence' = typedSequence
           ELSE /\ typedSequence # <<>>
                /\ Len(typedSequence') = Len(typedSequence) - 1
\* C12: typedSequence is never longer than the number of non-space
\* characters of currentText; a backspace that removes a trailing space leaves
\* typedSequence as it was, and one that removes a trailing letter shortens
\* typedSequence and currentText by exactly one.
C12_SequenceWithinText == []C12_LengthBound /\ [][C12_BackspaceStep]_vars
\* a backspace has removed the space typed after two letters
C12_Witness ==
    /\ lastOp = "removeLetterAtSpace"
    /\ typedSequence = <<"A", "I">>
    /\ currentText = <<"a", "i">>

\* C19: typedSequence is currentText with its spaces removed, in capitals and
\* in the same order; so one is empty exactly when the other is, and
\* currentText neither starts with a space nor holds two spaces in a row.
C19_SequenceIsTextLetters ==
    /\ typedSequence = [i \in 1..Len(NonSpaces(currentText)) |->
                            ToUpperCase(NonSpaces(currentText)[i])]
    /\ (typedSequence = <<>>) <=> (currentText = <<>>)
    /\ currentText # <<>> => currentText[1] # " "
    /\ \A i \in 1..(Len(currentText) - 1) :
           ~(currentText[i] = " " /\ currentText[i + 1] = " ")
\* two words stand on the page, retyped after a backspace and confirmed
C19_Witness ==
    /\ keyLog = Lost
    /\ currentText = <<"a", " ", "i">>
    /\ typedSequence = <<"A", "I">>
    /\ Confirmed

\* C20: the opacity and the visibility of the export controls are always one
\* of (1, hidden), (0.3, hidden), (0.3, visible), (0.1, visible).
C20_FourDisplayStates == Active \/ Fading \/ Revealed \/ Confirmed
\* a fade callback nobody cancelled has run on a confirmed keyboard
C20_Witness ==
    /\ lastInput = "confirmTyping"
    /\ keyboardOpacity = OpacityFaded
    /\ showExportButtons

\* C18: while currentText is empty (at the start, after the backspace that
\* removed the last character, after clear()) the keyboard is neither Fading
\* nor Revealed: the opacity is not 0.3 until a letter is typed again.
C18_NoFadeOnEmptyText == currentText = <<>> => keyboardOpacity # OpacityFaded

\* every letter of the sequence has a position
AllResolved == \A i \in 1..Len(typedSequence) : keyPositions[typedSequence[i]] # NoPos

\* C13: the vector export of a sequence of two or more letters that all have
\* a position holds one move-to, then one line-to per further letter, and
\* one circle per entry of the sequence, repeats included.
C13_ExportCounts ==
    (download.kind = "svg" /\ AllResolved) =>
        /\ Len(download.path) = Len(typedSequence)
        /\ download.path[1].op = "M"
        /\ \A j \in 2..Len(download.path) : download.path[j].op = "L"
        /\ Len(download.circles) = Len(typedSequence)
\* the longest sequence, with a letter typed twice in a row, was exported
C13_Witness ==
    /\ download.kind = "svg"
    /\ AllResolved
    /\ Len(typedSequence) = MaxSeq
    /\ typedSequence[1] = typedSequence[2]
    /\ typedSequence[3] # typedSequence[2]

\* C14: redrawLines on fewer than two letters clears the canvas and makes no
\* beginPath, moveTo, lineTo or stroke call.
C14_NoStrokeBelowTwo ==
    (ctxCalls # <<>> /\ Len(typedSequence) < 2) =>
        /\ ctxCalls[1].op = "clearRect"
        /\ \A j \in 1..Len(ctxCalls) :
               ctxCalls[j].op \notin {"beginPath", "M", "L", "stroke"}
        /\ canvasPath = <<>>
\* a single letter that has a position was redrawn
C14_Witness ==
    /\ ctxCalls # <<>>
    /\ Len(typedSequence) = 1
    /\ AllResolved

PointsOf(path) == [j \in 1..Len(path) |-> path[j].p]

\* C17: whenever the vector export runs on two or more letters, also right
\* after a letter and confirm with the deferred redraw still pending, the
\* points of the exported path are the points of the polyline on the canvas.
C17_ExportMatchesCanvas ==
    download.kind = "svg" => PointsOf(download.path) = PointsOf(canvasPath)

\* text is typed, the pointer is away and the user has stopped
LeftAlone == idle # "no" /\ currentText # <<>> /\ ~isHovering
\* with text typed and the pointer away, hidden export controls have a fade
\* or a reveal timer pending
C21_NotStuck ==
    (currentText # <<>> /\ ~isHovering /\ ~showExportButtons) =>
        Pending("fade") \cup Pending("export") # {}
\* C21: from every reachable state with text typed and the pointer away, if
\* no further key or pointer event occurs and the pending timers fire, the
\* export controls eventually show; no such state is stuck with the controls
\* hidden and no timer pending.
C21_ExportEventuallyShown ==
    /\ []C21_NotStuck
    /\ LeftAlone ~> showExportButtons
\* the user stopped with the controls hidden, and the timers revealed them
C21_Witness ==
    /\ idle = "hidden"
    /\ currentText # <<>>
    /\ ~isHovering
    /\ Revealed

====
